---- MODULE Spec2Model ----
(***************************************************************************)
(* A model of the retrieval pipeline of the infrastructure assistant:      *)
(*   rag_search.py  search_knowledge, detect_country,                      *)
(*                  WorldPopAPI.get_country_population_data,               *)
(*                  generate_answer                                        *)
(*   app.py         find_relevant_images, the chat session (the handler of *)
(*                  a submitted prompt, 'Clear Chat History')              *)
(* Every operation is one action that takes its inputs from small sets and *)
(* records what the call returned (or that it raised).                     *)
(***************************************************************************)
EXTENDS Integers, Sequences, FiniteSets, TLC

VARIABLES
    \* search_knowledge
    data,               \* the unpickled data/embeddings.pkl of the call
    query_embedding,    \* response.data[0].embedding
    top_k,
    similarities,       \* the list of (i, cosine_sim) after the sort
    relevant_chunks,    \* what search_knowledge returned
    search_status,      \* "idle" | "called" | "returned" | "raised"
    search_fault,       \* the external call of search_knowledge that raises:
                        \* "load" (open / pickle.load), "embedding"
                        \* (client.embeddings.create), or "none"
    \* detect_country
    query_text,         \* the query of the call
    iso3_code,          \* what detect_country returned
    detect_status,      \* "idle" | "called" | "returned"
    \* WorldPopAPI.get_country_population_data
    response,           \* what requests.get(url, timeout=5) does
    pop_year,           \* the year argument
    pop_data,           \* the returned record: <<>> for None, <<record>>
    pop_error,          \* the exception that left the call, "" for none
    pop_status,         \* "idle" | "called" | "returned" | "raised"
    \* generate_answer
    completion,         \* what client.chat.completions.create does
    answer,             \* the returned text, as the list of its pieces
    answer_status,      \* "idle" | "called" | "returned" | "raised"
    \* find_relevant_images
    image_query,        \* query
    image_kb,           \* the catalog, a list of articles
    max_images,
    matched_images,     \* what find_relevant_images returned
    images_failed,      \* whether the except branch of line 72 was taken
    images_status,      \* "idle" | "called" | "returned"
    \* the chat session of app.py
    messages,               \* st.session_state.messages
    image_knowledge_base,   \* st.session_state.image_knowledge_base
    chat_status             \* "idle" | "ready"

searchVars == <<data, query_embedding, top_k, similarities, relevant_chunks,
                search_status, search_fault>>

detectVars == <<query_text, iso3_code, detect_status>>

popVars == <<response, pop_year, pop_data, pop_error, pop_status>>

answerVars == <<completion, answer, answer_status>>

imageVars == <<image_query, image_kb, max_images, matched_images, images_failed,
               images_status>>

chatVars == <<messages, image_knowledge_base, chat_status>>

vars == <<searchVars, detectVars, popVars, answerVars, imageVars, chatVars>>

None == "None"

Range(s) == {s[i] : i \in 1..Len(s)}

RECURSIVE SeqsUpTo(_, _)
\* All sequences over S of length at most n.
SeqsUpTo(S, n) ==
    IF n = 0 THEN {<<>>}
    ELSE LET shorter == SeqsUpTo(S, n - 1)
         IN  shorter \cup {Append(s, x) : s \in {t \in shorter : Len(t) = n - 1}, x \in S}

ReverseSeq(s) == [i \in 1..Len(s) |-> s[Len(s) + 1 - i]]

(***************************************************************************)
(* Embeddings.  A vector is a sequence of integers; a cosine similarity is *)
(* kept exactly, as the pair (dot, nn) standing for dot / sqrt(nn), where  *)
(* nn is the product of the two squared norms.  nn = 0 is the 0/0 that     *)
(* numpy evaluates to nan (with a RuntimeWarning, not an exception).       *)
(***************************************************************************)
MaxChunks == 3
MaxTopK == 4
MinTopK == 0 - 2

Vectors == {<<0, 0>>, <<1, 0>>, <<0, 1>>, <<1, 1>>, <<2, 2>>, <<0 - 1, 1>>,
            <<1, 0, 1>>}
QueryVectors == {v \in Vectors : Len(v) = 2}

RECURSIVE DotFrom(_, _, _)
DotFrom(a, b, i) == IF i > Len(a) THEN 0 ELSE a[i] * b[i] + DotFrom(a, b, i + 1)

Dot(a, b) == DotFrom(a, b, 1)

\* numpy.linalg.norm, squared
Norm2(a) == Dot(a, a)

\* np.dot raises ValueError on vectors of different lengths
DotRaises(a, b) == Len(a) # Len(b)

cosine_sim(q, c) == [dot |-> Dot(q, c), nn |-> Norm2(q) * Norm2(c)]

IsNaN(x) == x.nn = 0

SignedSquare(x) == IF x < 0 THEN 0 - x * x ELSE x * x

\* a < b on floats: false as soon as one side is nan
FloatLT(a, b) ==
    /\ ~IsNaN(a)
    /\ ~IsNaN(b)
    /\ SignedSquare(a.dot) * b.nn < SignedSquare(b.dot) * a.nn

(***************************************************************************)
(* list.sort(key=..., reverse=True) of CPython on a list shorter than 64   *)
(* elements: reverse the list, find the initial run, binary-insert the     *)
(* rest, reverse again.  Only key(x) < key(y) is ever asked.               *)
(***************************************************************************)
KeyLT(x, y) == FloatLT(x[2], y[2])

\* count_run: the length of the run the list starts with, and whether it
\* is strictly descending.
RunDescending(s) == Len(s) >= 2 /\ KeyLT(s[2], s[1])

RunLength(s) ==
    IF Len(s) < 2 THEN Len(s)
    ELSE LET desc == RunDescending(s)
             InRun(j) == KeyLT(s[j], s[j - 1]) = desc
         IN  CHOOSE n \in 2..Len(s) :
                 /\ \A j \in 2..n : InRun(j)
                 /\ n = Len(s) \/ ~InRun(n + 1)

ReversePrefix(s, n) == [i \in 1..Len(s) |-> IF i <= n THEN s[n + 1 - i] ELSE s[i]]

RECURSIVE BinaryPosition(_, _, _, _)
\* the do-while of binarysort, on 0-based l and r
BinaryPosition(s, pivot, l, r) ==
    IF l >= r THEN l
    ELSE LET p == l + ((r - l) \div 2)
         IN  IF KeyLT(pivot, s[p + 1])
             THEN BinaryPosition(s, pivot, l, p)
             ELSE BinaryPosition(s, pivot, p + 1, r)

\* move s[start] (1-based) to 0-based position l, shifting the rest right
InsertAt(s, start, l) ==
    [i \in 1..Len(s) |->
        IF i <= l THEN s[i]
        ELSE IF i = l + 1 THEN s[start]
        ELSE IF i <= start THEN s[i - 1]
        ELSE s[i]]

RECURSIVE BinarySort(_, _)
\* binarysort: s[1..start-1] is sorted, insert s[start], s[start+1], ...
BinarySort(s, start) ==
    IF start > Len(s) THEN s
    ELSE BinarySort(InsertAt(s, start, BinaryPosition(s, s[start], 0, start - 1)),
                    start + 1)

ListSort(s) ==
    LET n == RunLength(s)
        run == IF RunDescending(s) THEN ReversePrefix(s, n) ELSE s
    IN  BinarySort(run, n + 1)

\* sorted(s)[::-1] in the place of sort(reverse=True): elements of equal
\* keys come out in reverse
SortThenReverse(s) == ReverseSeq(ListSort(s))

\* list.sort(reverse=True)
SortReverse(s) == ReverseSeq(ListSort(ReverseSeq(s)))

\* s[:k] of Python, for any integer k
SliceTo(s, k) ==
    LET stop == IF k < 0 THEN (IF Len(s) + k < 0 THEN 0 ELSE Len(s) + k)
                ELSE IF k > Len(s) THEN Len(s) ELSE k
    IN  SubSeq(s, 1, stop)

(***************************************************************************)
(* load_knowledge_base and search_knowledge                                *)
(***************************************************************************)
\* The pickled artifacts: item i carries the text and filename i, so that a
\* returned chunk names the item it came from.
Artifacts ==
    {[i \in 1..Len(es) |-> [text |-> i, filename |-> i, embedding |-> es[i]]] :
        es \in SeqsUpTo(Vectors, MaxChunks)}

load_knowledge_base(d) ==
    [knowledge_base |-> [i \in 1..Len(d) |-> [text |-> d[i].text, source |-> d[i].filename]],
     embeddings |-> [i \in 1..Len(d) |-> d[i].embedding]]

\* the loop of lines 151-157, before the sort
Similarities(q, embeddings) ==
    [i \in 1..Len(embeddings) |-> <<i, cosine_sim(q, embeddings[i])>>]

SearchRaises(q, embeddings) ==
    \E i \in 1..Len(embeddings) : DotRaises(q, embeddings[i])

SearchFaults == {"none", "load", "embedding"}

\* What one call of search_knowledge does: d is the artifact on disk, q the
\* embedding the service gives for the query, fault the external call that
\* raises.  Nothing in the function catches an exception.
SearchOutcome(d, q, k, fault) ==
    LET loaded == load_knowledge_base(d)
        sorted == SortReverse(Similarities(q, loaded.embeddings))
        top == SliceTo(sorted, k)
    IN  IF fault # "none" \/ SearchRaises(q, loaded.embeddings)
        THEN [status |-> "raised", similarities |-> <<>>, chunks |-> <<>>]
        ELSE [status |-> "returned", similarities |-> sorted,
              chunks |-> [j \in 1..Len(top) |-> loaded.knowledge_base[top[j][1]]]]

search_knowledge ==
    LET r == SearchOutcome(data, query_embedding, top_k, search_fault)
    IN  /\ search_status = "called"
        /\ search_status' = r.status
        /\ similarities' = r.similarities
        /\ relevant_chunks' = r.chunks
        /\ UNCHANGED <<data, query_embedding, top_k, search_fault, detectVars,
                       popVars, answerVars, imageVars, chatVars>>

SearchIdle ==
    /\ data = <<>>
    /\ query_embedding = <<>>
    /\ top_k = 0
    /\ similarities = <<>>
    /\ relevant_chunks = <<>>
    /\ search_status = "idle"
    /\ search_fault = "none"

DetectIdle ==
    /\ query_text = <<>>
    /\ iso3_code = None
    /\ detect_status = "idle"

PopIdle ==
    /\ response = <<>>
    /\ pop_year = 0
    /\ pop_data = <<>>
    /\ pop_error = ""
    /\ pop_status = "idle"

AnswerIdle ==
    /\ completion = <<>>
    /\ answer = <<>>
    /\ answer_status = "idle"

ImagesIdle ==
    /\ image_query = <<>>
    /\ image_kb = <<>>
    /\ max_images = 0
    /\ matched_images = <<>>
    /\ images_failed = FALSE
    /\ images_status = "idle"

\* no chat session
ChatIdle ==
    /\ messages = <<>>
    /\ image_knowledge_base = <<>>
    /\ chat_status = "idle"

\* One call per behaviour: the artifact on disk, the embedding of the query
\* and top_k are the inputs of the call.
InitSearch ==
    /\ DetectIdle
    /\ PopIdle
    /\ AnswerIdle
    /\ ImagesIdle
    /\ ChatIdle
    /\ \/ /\ search_fault = "none"
          /\ data \in Artifacts
          /\ query_embedding \in QueryVectors
       \/ \* the artifact is missing or corrupt: nothing is unpickled
          /\ search_fault = "load"
          /\ data = <<>>
          /\ query_embedding \in QueryVectors
       \/ \* the embedding service fails: there is no query embedding
          /\ search_fault = "embedding"
          /\ data \in Artifacts
          /\ query_embedding = <<>>
    /\ top_k \in MinTopK..MaxTopK
    /\ similarities = <<>>
    /\ relevant_chunks = <<>>
    /\ search_status = "called"

NextSearch == search_knowledge

SpecSearch == InitSearch /\ [][NextSearch]_vars

(***************************************************************************)
(* Text.  A string is a sequence of one-character strings.                 *)
(***************************************************************************)
UpperLetters == <<"A", "B", "C", "D", "E", "F", "G", "H", "I", "J", "K", "L", "M", "N", "O", "P", "Q", "R", "S", "T", "U", "V", "W", "X", "Y", "Z">>
LowerLetters == <<"a", "b", "c", "d", "e", "f", "g", "h", "i", "j", "k", "l", "m", "n", "o", "p", "q", "r", "s", "t", "u", "v", "w", "x", "y", "z">>

\* str.lower() on one character
LowerChar(c) ==
    IF \E i \in 1..Len(UpperLetters) : UpperLetters[i] = c
    THEN LowerLetters[CHOOSE i \in 1..Len(UpperLetters) : UpperLetters[i] = c]
    ELSE c

UpperChar(c) ==
    IF \E i \in 1..Len(LowerLetters) : LowerLetters[i] = c
    THEN UpperLetters[CHOOSE i \in 1..Len(LowerLetters) : LowerLetters[i] = c]
    ELSE c

\* str.lower()
Lower(t) == [i \in 1..Len(t) |-> LowerChar(t[i])]

Upper(t) == [i \in 1..Len(t) |-> UpperChar(t[i])]

Capitalized(t) == [i \in 1..Len(t) |-> IF i = 1 THEN UpperChar(t[i]) ELSE t[i]]

\* needle in hay, for two str
IsSubstring(needle, hay) ==
    \E off \in 0..(Len(hay) - Len(needle)) :
        \A j \in 1..Len(needle) : hay[off + j] = needle[j]

(***************************************************************************)
(* detect_country                                                          *)
(***************************************************************************)
\* the dict, in its iteration (insertion) order
AFRICAN_COUNTRIES == <<
    [name |-> <<"n", "i", "g", "e", "r", "i", "a">>, code |-> "NGA"],
    [name |-> <<"k", "e", "n", "y", "a">>, code |-> "KEN"],
    [name |-> <<"g", "h", "a", "n", "a">>, code |-> "GHA"],
    [name |-> <<"e", "t", "h", "i", "o", "p", "i", "a">>, code |-> "ETH"],
    [name |-> <<"s", "o", "u", "t", "h", " ", "a", "f", "r", "i", "c", "a">>, code |-> "ZAF"],
    [name |-> <<"t", "a", "n", "z", "a", "n", "i", "a">>, code |-> "TZA"],
    [name |-> <<"u", "g", "a", "n", "d", "a">>, code |-> "UGA"],
    [name |-> <<"r", "w", "a", "n", "d", "a">>, code |-> "RWA"],
    [name |-> <<"s", "e", "n", "e", "g", "a", "l">>, code |-> "SEN"],
    [name |-> <<"m", "a", "l", "a", "w", "i">>, code |-> "MWI"],
    [name |-> <<"z", "a", "m", "b", "i", "a">>, code |-> "ZMB"],
    [name |-> <<"z", "i", "m", "b", "a", "b", "w", "e">>, code |-> "ZWE"],
    [name |-> <<"m", "o", "z", "a", "m", "b", "i", "q", "u", "e">>, code |-> "MOZ"],
    [name |-> <<"c", "a", "m", "e", "r", "o", "o", "n">>, code |-> "CMR"],
    [name |-> <<"i", "v", "o", "r", "y", " ", "c", "o", "a", "s", "t">>, code |-> "CIV"],
    [name |-> <<"m", "a", "d", "a", "g", "a", "s", "c", "a", "r">>, code |-> "MDG"],
    [name |-> <<"m", "a", "l", "i">>, code |-> "MLI"],
    [name |-> <<"b", "u", "r", "k", "i", "n", "a", " ", "f", "a", "s", "o">>, code |-> "BFA"],
    [name |-> <<"n", "i", "g", "e", "r">>, code |-> "NER"],
    [name |-> <<"s", "o", "m", "a", "l", "i", "a">>, code |-> "SOM"]
>>

RECURSIVE DetectLastFrom(_, _, _)
DetectLastFrom(query_lower, i, found) ==
    IF i > Len(AFRICAN_COUNTRIES) THEN found
    ELSE DetectLastFrom(query_lower, i + 1,
                        IF IsSubstring(AFRICAN_COUNTRIES[i].name, query_lower)
                        THEN AFRICAN_COUNTRIES[i].code ELSE found)

\* detect_country without the early return: the last matching entry wins
DetectLastMatch(query) == DetectLastFrom(Lower(query), 1, None)

RECURSIVE DetectFrom(_, _)
\* the for loop of lines 111-115, from entry i on
DetectFrom(query_lower, i) ==
    IF i > Len(AFRICAN_COUNTRIES) THEN None
    ELSE IF IsSubstring(AFRICAN_COUNTRIES[i].name, query_lower)
         THEN AFRICAN_COUNTRIES[i].code
         ELSE DetectFrom(query_lower, i + 1)

detect_country(query) == DetectFrom(Lower(query), 1)

MaxWords == 2

CountryNames == {AFRICAN_COUNTRIES[i].name : i \in 1..Len(AFRICAN_COUNTRIES)}

OtherWords == {<<"p", "o", "l", "i", "c", "y">>, <<"r", "u", "r", "a", "l">>, <<"n", "o", "r", "m", "a", "l", "i", "t", "y">>, <<"g", "a", "p", "s">>}

PhraseWords ==
    {<<"K", "e", "n", "y", "a">>,
     <<"n", "i", "g", "e", "r", "i", "a">>,
     <<"N", "I", "G", "E", "R">>,
     <<"m", "a", "l", "i">>,
     <<"S", "o", "m", "a", "l", "i", "a">>,
     <<"r", "u", "r", "a", "l">>,
     <<"G", "h", "a", "n", "a">>,
     <<"T", "a", "n", "z", "a", "n", "i", "a">>}

RECURSIVE Join(_)
\* " ".join(words)
Join(words) ==
    IF Len(words) = 0 THEN <<>>
    ELSE IF Len(words) = 1 THEN words[1]
    ELSE words[1] \o <<" ">> \o Join(Tail(words))

ExampleQueries == {<<"I", "n", "f", "r", "a", "s", "t", "r", "u", "c", "t", "u", "r", "e", " ", "g", "a", "p", "s", " ", "i", "n", " ", "r", "u", "r", "a", "l", " ", "K", "e", "n", "y", "a">>,
                   <<"g", "e", "n", "e", "r", "a", "l", " ", "p", "o", "l", "i", "c", "y", " ", "o", "v", "e", "r", "v", "i", "e", "w">>}

\* one word in three letter cases, phrases of several words, and the two
\* queries the specification names
Queries ==
    {f : f \in UNION {{w, Upper(w), Capitalized(w)} : w \in CountryNames \cup OtherWords}}
    \cup {Join(ws) : ws \in {t \in SeqsUpTo(PhraseWords, MaxWords) : Len(t) >= 2}}
    \cup ExampleQueries

DetectCall ==
    /\ detect_status = "called"
    /\ iso3_code' = detect_country(query_text)
    /\ detect_status' = "returned"
    /\ UNCHANGED <<query_text, searchVars, popVars, answerVars, imageVars, chatVars>>

InitDetect ==
    /\ SearchIdle
    /\ ChatIdle
    /\ PopIdle
    /\ AnswerIdle
    /\ ImagesIdle
    /\ query_text \in Queries
    /\ iso3_code = None
    /\ detect_status = "called"

NextDetect == DetectCall

SpecDetect == InitDetect /\ [][NextDetect]_vars

(***************************************************************************)
(* WorldPopAPI.get_country_population_data                                 *)
(*                                                                         *)
(* A response is what requests.get does: it raises requests.Timeout or     *)
(* another RequestException, or returns a status code and a body.  A body  *)
(* is text that is no JSON, or a JSON value; of an object only the 'data'  *)
(* member matters, and of an entry its type and its members.               *)
(***************************************************************************)
MaxEntries == 3

DefaultYear == 2020

DefaultCitation == "WorldPop Global Population Dataset"

Years == {DefaultYear, 2018}

\* the value of 'popyear': a number, a string of four digits, null, or no
\* such key
AbsentYear == [type |-> "absent", value |-> 0]
IntYear(y) == [type |-> "int", value |-> y]
StrYear(y) == [type |-> "str", value |-> y]
NullYear == [type |-> "null", value |-> 0]

EntryKinds == {"2019", "2020", "2021", "'2020'", "nokey", "null", "string"}

\* the i-th entry of the list, of kind k; its title names its place
EntryAt(k, i) ==
    [type |-> IF k = "string" THEN "string" ELSE "object",
     popyear |-> CASE k = "2019" -> IntYear(2019)
                   [] k = "2020" -> IntYear(2020)
                   [] k = "2021" -> IntYear(2021)
                   [] k = "'2020'" -> StrYear(2020)
                   [] k = "null" -> NullYear
                   [] OTHER -> AbsentYear,
     title |-> i,
     country |-> "Kenya",
     citation |-> IF k = "2019" THEN "absent" ELSE "cited"]

EntryLists ==
    {[i \in 1..Len(ks) |-> EntryAt(ks[i], i)] : ks \in SeqsUpTo(EntryKinds, MaxEntries)}

\* the 'data' member of the object
DataFields ==
    {[type |-> t, items |-> <<>>] :
        t \in {"absent", "null", "number", "string", "empty_string", "object",
               "empty_object"}}
    \cup {[type |-> "list", items |-> es] : es \in EntryLists}

NoData == [type |-> "absent", items |-> <<>>]

Bodies ==
    {[json |-> j, data |-> NoData] : j \in {"invalid", "array", "null"}}
    \cup {[json |-> "object", data |-> d] : d \in DataFields}

NoBody == [json |-> "invalid", data |-> NoData]

Responses ==
    {[outcome |-> o, status_code |-> 0, body |-> NoBody] : o \in {"timeout", "request_error"}}
    \cup {[outcome |-> "response", status_code |-> c, body |-> NoBody] : c \in {404, 500}}
    \cup {[outcome |-> "response", status_code |-> 200, body |-> b] : b \in Bodies}

PopReturned(value) == [status |-> "returned", value |-> value, error |-> ""]

PopRaised(e) == [status |-> "raised", value |-> <<>>, error |-> e]

\* the dict of lines 69-74 and 79-84
PopRecord(item, year) ==
    [title |-> item.title,
     country |-> item.country,
     year |-> IF item.popyear.type = "absent" THEN IntYear(year) ELSE item.popyear,
     citation |-> IF item.citation = "absent" THEN DefaultCitation ELSE item.citation]

\* item.get('popyear') == year
YearEquals(popyear, year) == popyear.type = "int" /\ popyear.value = year

\* x.get('popyear', 0)
MaxKey(item) == IF item.popyear.type = "absent" THEN IntYear(0) ELSE item.popyear

\* a > b raises TypeError unless both are numbers or both are strings
Comparable(a, b) == a.type = b.type /\ a.type \in {"int", "str"}

RECURSIVE MaxFromMin(_, _, _)
\* min in the place of max: the smallest key wins
MaxFromMin(items, i, best) ==
    IF i > Len(items) THEN [raised |-> FALSE, item |-> items[best]]
    ELSE IF ~Comparable(MaxKey(items[i]), MaxKey(items[best]))
         THEN [raised |-> TRUE, item |-> items[best]]
         ELSE MaxFromMin(items, i + 1,
                         IF MaxKey(items[i]).value < MaxKey(items[best]).value
                         THEN i ELSE best)

RECURSIVE MaxFrom(_, _, _)
\* max(items, key=...): items[best] is the largest of items[1..i-1]
MaxFrom(items, i, best) ==
    IF i > Len(items) THEN [raised |-> FALSE, item |-> items[best]]
    ELSE IF ~Comparable(MaxKey(items[i]), MaxKey(items[best]))
         THEN [raised |-> TRUE, item |-> items[best]]
         ELSE MaxFrom(items, i + 1,
                      IF MaxKey(items[i]).value > MaxKey(items[best]).value
                      THEN i ELSE best)

\* lines 76-86: the exact year was not found
MostRecent(items, year) ==
    IF Len(items) = 0 THEN PopReturned(<<>>)
    ELSE LET latest == MaxFrom(items, 2, 1)
         IN  IF latest.raised THEN PopRaised("TypeError")
             ELSE PopReturned(<<PopRecord(latest.item, year)>>)

RECURSIVE ScanYear(_, _, _)
\* lines 67-74, from entry i on
ScanYear(items, year, i) ==
    IF i > Len(items) THEN MostRecent(items, year)
    ELSE IF items[i].type # "object" THEN PopRaised("AttributeError")
    ELSE IF YearEquals(items[i].popyear, year)
         THEN PopReturned(<<PopRecord(items[i], year)>>)
         ELSE ScanYear(items, year, i + 1)

get_country_population_data(resp, year) ==
    IF resp.outcome = "timeout" THEN PopReturned(<<>>)
    ELSE IF resp.outcome = "request_error" THEN PopReturned(<<>>)
    ELSE IF resp.status_code # 200 THEN PopReturned(<<>>)
    \* response.json() raises a JSONDecodeError, which is caught
    ELSE IF resp.body.json = "invalid" THEN PopReturned(<<>>)
    \* data.get on a list or on None
    ELSE IF resp.body.json # "object" THEN PopRaised("AttributeError")
    ELSE LET d == resp.body.data
         IN  CASE d.type \in {"null", "number"} -> PopRaised("TypeError")
               [] d.type \in {"string", "object"} -> PopRaised("AttributeError")
               [] d.type \in {"absent", "empty_string", "empty_object"} -> PopReturned(<<>>)
               [] OTHER -> ScanYear(d.items, year, 1)

PopCall ==
    LET r == get_country_population_data(response, pop_year)
    IN  /\ pop_status = "called"
        /\ pop_status' = r.status
        /\ pop_data' = r.value
        /\ pop_error' = r.error
        /\ UNCHANGED <<response, pop_year, searchVars, detectVars, answerVars, imageVars,
                       chatVars>>

InitPop ==
    /\ SearchIdle
    /\ ChatIdle
    /\ AnswerIdle
    /\ ImagesIdle
    /\ query_text = <<>>
    /\ iso3_code = "KEN"
    /\ detect_status = "idle"
    /\ response \in Responses
    /\ pop_year \in Years
    /\ pop_data = <<>>
    /\ pop_error = ""
    /\ pop_status = "called"

NextPop == PopCall

SpecPop == InitPop /\ [][NextPop]_vars

(***************************************************************************)
(* generate_answer                                                         *)
(*                                                                         *)
(* A text is the list of the pieces it was put together from: the content  *)
(* of the completion, then what each answer += f"..." appended.            *)
(***************************************************************************)
Piece(line, text, year) == [line |-> line, text |-> text, year |-> year]

\* response.choices[0].message.content
CompletionText == <<Piece("completion", "content", AbsentYear)>>

\* what lines 232-236 append
PopulationBlock(pop) ==
    <<Piece("**Population Context:**", "", AbsentYear),
      Piece("- Country: ", pop.country, AbsentYear),
      Piece("- Latest WorldPop data: ", "", pop.year),
      Piece("- Source: ", DefaultCitation, AbsentYear),
      Piece("- Citation: ", pop.citation, AbsentYear)>>

\* lines 229-236 with the heading appended before the lookup is looked at
ComposeHeadingFirst(text, iso3, pop) ==
    IF iso3 # None
    THEN IF pop # <<>> THEN text \o PopulationBlock(pop[1])
         ELSE text \o SubSeq(PopulationBlock([country |-> "", year |-> AbsentYear,
                                               citation |-> ""]), 1, 1)
    ELSE text

\* lines 229-236: the answer, given what detect_country and the lookup gave
ComposeAnswer(text, iso3, pop) ==
    IF iso3 # None /\ pop # <<>> THEN text \o PopulationBlock(pop[1]) ELSE text

Completions == {"ok", "error"}

\* What one call of generate_answer does, given what the completion service
\* and the population service do.  Nothing in the function catches an
\* exception: one raised by the completion leaves before detect_country is
\* called, one raised by the lookup leaves before the return.
AnswerOutcome(query, comp, resp) ==
    LET iso3 == detect_country(query)
        r == get_country_population_data(resp, DefaultYear)
    IN  IF comp = "error"
        THEN [status |-> "raised", detected |-> FALSE, iso3 |-> None,
              looked_up |-> FALSE, pop |-> PopReturned(<<>>), answer |-> <<>>]
        ELSE IF iso3 = None
        THEN [status |-> "returned", detected |-> TRUE, iso3 |-> iso3,
              looked_up |-> FALSE, pop |-> PopReturned(<<>>),
              answer |-> ComposeAnswer(CompletionText, iso3, <<>>)]
        ELSE [status |-> r.status, detected |-> TRUE, iso3 |-> iso3,
              looked_up |-> TRUE, pop |-> r,
              answer |-> IF r.status = "raised" THEN <<>>
                         ELSE ComposeAnswer(CompletionText, iso3, r.value)]

generate_answer ==
    LET o == AnswerOutcome(query_text, completion, response)
    IN  /\ answer_status = "called"
        /\ answer_status' = o.status
        /\ answer' = o.answer
        /\ iso3_code' = o.iso3
        /\ detect_status' = IF o.detected THEN "returned" ELSE detect_status
        /\ IF o.looked_up
           THEN /\ pop_year' = DefaultYear
                /\ pop_status' = o.pop.status
                /\ pop_data' = o.pop.value
                /\ pop_error' = o.pop.error
           ELSE UNCHANGED <<pop_year, pop_data, pop_error, pop_status>>
        /\ UNCHANGED <<query_text, response, completion, searchVars, imageVars,
                       chatVars>>

\* the queries of generate_answer: one word, or one of the spec's queries
AnswerQueries == CountryNames \cup OtherWords \cup ExampleQueries

InitAnswer ==
    /\ SearchIdle
    /\ ChatIdle
    /\ ImagesIdle
    /\ query_text \in AnswerQueries
    /\ iso3_code = None
    /\ detect_status = "idle"
    /\ response \in Responses
    /\ pop_year = 0
    /\ pop_data = <<>>
    /\ pop_error = ""
    /\ pop_status = "idle"
    /\ completion \in Completions
    /\ answer = <<>>
    /\ answer_status = "called"

NextAnswer == generate_answer

SpecAnswer == InitAnswer /\ [][NextAnswer]_vars

(***************************************************************************)
(* find_relevant_images (app.py)                                           *)
(*                                                                         *)
(* A member of an article or of an image is a string, or something else:   *)
(* a number, null, or missing.                                             *)
(***************************************************************************)
MaxArticles == 3
MaxResults == 3

Image(type, filename, relevance, geographic_focus, data_type) ==
    [type |-> type, filename |-> filename, description |-> filename,
     figure_type |-> "figure", relevance |-> relevance,
     geographic_focus |-> geographic_focus, data_type |-> data_type]

\* articles that follow the catalog's schema
WellFormedArticles == {
    [article_id |-> "a1",
     article_topic |-> [type |-> "str", text |-> <<"h", "e", "a", "l", "t", "h">>],
     images |-> [type |-> "list", items |-> <<
         Image("object", "a1_1", <<[type |-> "str", text |-> <<"w", "a", "t", "e", "r">>]>>,
                [type |-> "absent", text |-> <<>>], [type |-> "absent", text |-> <<>>]),
         Image("object", "a1_2", <<>>,
                [type |-> "str", text |-> <<"K", "e", "n", "y", "a">>], [type |-> "absent", text |-> <<>>])>>]],
    [article_id |-> "a2",
     article_topic |-> [type |-> "str", text |-> <<"T", "r", "a", "n", "s", "p", "o", "r", "t">>],
     images |-> [type |-> "list", items |-> <<
         Image("object", "a2_1", <<[type |-> "str", text |-> <<"W", "a", "t", "e", "r">>], [type |-> "str", text |-> <<"a", "c", "c", "e", "s", "s">>]>>,
                [type |-> "str", text |-> <<"G", "h", "a", "n", "a">>], [type |-> "str", text |-> <<"l", "a", "n", "d", "_", "u", "s", "e">>])>>]],
    [article_id |-> "a3",
     article_topic |-> [type |-> "absent", text |-> <<>>],
     images |-> [type |-> "list", items |-> <<
         Image("object", "a3_1", <<[type |-> "str", text |-> <<"r", "o", "a", "d", "s">>]>>,
                [type |-> "absent", text |-> <<>>], [type |-> "str", text |-> <<"m", "a", "p">>])>>]],
    [article_id |-> "a4",
     article_topic |-> [type |-> "str", text |-> <<"w", "a", "t", "e", "r">>],
     images |-> [type |-> "list", items |-> <<
         Image("object", "a4_1", <<>>,
                [type |-> "absent", text |-> <<>>], [type |-> "absent", text |-> <<>>]),
         Image("object", "a4_2", <<[type |-> "str", text |-> <<"e", "n", "e", "r", "g", "y">>]>>,
                [type |-> "str", text |-> <<"K", "e", "n", "y", "a">>], [type |-> "absent", text |-> <<>>])>>]],
    [article_id |-> "a5",
     article_topic |-> [type |-> "str", text |-> <<>>],
     images |-> [type |-> "list", items |-> <<
         Image("object", "a5_1", <<[type |-> "str", text |-> <<"w", "a", "t", "e", "r">>]>>,
                [type |-> "absent", text |-> <<>>], [type |-> "absent", text |-> <<>>]),
         Image("object", "a5_2", <<[type |-> "str", text |-> <<"a", "c", "c", "e", "s", "s">>]>>,
                [type |-> "absent", text |-> <<>>], [type |-> "absent", text |-> <<>>])>>]]
}

\* articles with an entry that is not what the schema says: a keyword that
\* is a number, 'images' that is null, an article_topic that is null, a
\* geographic_focus and a data_type that are numbers, an image that is a
\* string
MalformedArticles == {
    [article_id |-> "a6",
     article_topic |-> [type |-> "str", text |-> <<"h", "e", "a", "l", "t", "h">>],
     images |-> [type |-> "list", items |-> <<
         Image("object", "a6_1", <<[type |-> "str", text |-> <<"w", "a", "t", "e", "r">>]>>,
                [type |-> "absent", text |-> <<>>], [type |-> "absent", text |-> <<>>]),
         Image("object", "a6_2", <<[type |-> "number", text |-> <<>>]>>,
                [type |-> "absent", text |-> <<>>], [type |-> "absent", text |-> <<>>])>>]],
    [article_id |-> "a7",
     article_topic |-> [type |-> "str", text |-> <<"h", "e", "a", "l", "t", "h">>],
     images |-> [type |-> "null", items |-> <<
         >>]],
    [article_id |-> "a8",
     article_topic |-> [type |-> "null", text |-> <<>>],
     images |-> [type |-> "list", items |-> <<
         Image("object", "a8_1", <<[type |-> "str", text |-> <<"r", "o", "a", "d", "s">>]>>,
                [type |-> "str", text |-> <<"K", "e", "n", "y", "a">>], [type |-> "absent", text |-> <<>>])>>]],
    [article_id |-> "a9",
     article_topic |-> [type |-> "str", text |-> <<"h", "e", "a", "l", "t", "h">>],
     images |-> [type |-> "list", items |-> <<
         Image("object", "a9_1", <<[type |-> "str", text |-> <<"r", "o", "a", "d", "s">>]>>,
                [type |-> "number", text |-> <<>>], [type |-> "number", text |-> <<>>]),
         Image("string", "a9_2", <<>>,
                [type |-> "absent", text |-> <<>>], [type |-> "absent", text |-> <<>>])>>]]
}

ArticlePool == WellFormedArticles \cup MalformedArticles

\* the catalogs: lists of different articles of the pool
Catalogs ==
    {c \in SeqsUpTo(ArticlePool, MaxArticles) :
        \A i, j \in 1..Len(c) : c[i] = c[j] => i = j}

ImageQueries == {
    <<"W", "a", "t", "e", "r", " ", "a", "c", "c", "e", "s", "s", " ", "i", "n", " ", "K", "e", "n", "y", "a">>,
    <<"l", "a", "n", "d", " ", "u", "s", "e", " ", "m", "a", "p", " ", "o", "f", " ", "g", "h", "a", "n", "a">>,
    <<"r", "u", "r", "a", "l", " ", "r", "o", "a", "d", "s">>,
    <<"t", "r", "a", "n", "s", "p", "o", "r", "t", " ", "a", "n", "d", " ", "e", "n", "e", "r", "g", "y">>}

\* data_type.replace("_", " ")
ReplaceUnderscores(t) == [i \in 1..Len(t) |-> IF t[i] = "_" THEN " " ELSE t[i]]

\* the truth value of a member read with .get: None and "" are false
Truthy(x) == x.type = "number" \/ (x.type = "str" /\ x.text # <<>>)

Scored(n) == [raised |-> FALSE, score |-> n]

ScoreRaised == [raised |-> TRUE, score |-> 0]

RECURSIVE KeywordScore(_, _, _)
\* lines 40-42, from keyword i on
KeywordScore(relevance, query_lower, i) ==
    IF i > Len(relevance) THEN Scored(0)
    ELSE IF relevance[i].type # "str" THEN ScoreRaised
    ELSE LET rest == KeywordScore(relevance, query_lower, i + 1)
         IN  IF rest.raised THEN ScoreRaised
             ELSE Scored(rest.score
                         + IF IsSubstring(Lower(relevance[i].text), query_lower)
                           THEN 2 ELSE 0)

\* lines 45-47 with 2 points in the place of 3
GeoScoreTwo(geo_focus, query_lower) ==
    IF ~Truthy(geo_focus) THEN Scored(0)
    ELSE IF geo_focus.type # "str" THEN ScoreRaised
    ELSE Scored(IF IsSubstring(Lower(geo_focus.text), query_lower) THEN 2 ELSE 0)

\* lines 45-47
GeoScore(geo_focus, query_lower) ==
    IF ~Truthy(geo_focus) THEN Scored(0)
    ELSE IF geo_focus.type # "str" THEN ScoreRaised
    ELSE Scored(IF IsSubstring(Lower(geo_focus.text), query_lower) THEN 3 ELSE 0)

\* lines 50-52
DataTypeScore(data_type, query_lower) ==
    IF ~Truthy(data_type) THEN Scored(0)
    ELSE IF data_type.type # "str" THEN ScoreRaised
    ELSE Scored(IF IsSubstring(Lower(ReplaceUnderscores(data_type.text)), query_lower)
                THEN 2 ELSE 0)

\* lines 55-57: article.get("article_topic", "")
TopicScore(article_topic, query_lower) ==
    IF article_topic.type = "null" THEN ScoreRaised
    ELSE LET topic == IF article_topic.type = "absent" THEN <<>> ELSE article_topic.text
         IN  Scored(IF IsSubstring(Lower(topic), query_lower) THEN 1 ELSE 0)

\* lines 36-57: the score of one image
ScoreImage(article, image, query_lower) ==
    IF image.type # "object" THEN ScoreRaised
    ELSE LET k == KeywordScore(image.relevance, query_lower, 1)
             g == GeoScore(image.geographic_focus, query_lower)
             d == DataTypeScore(image.data_type, query_lower)
             t == TopicScore(article.article_topic, query_lower)
         IN  IF k.raised \/ g.raised \/ d.raised \/ t.raised THEN ScoreRaised
             ELSE Scored(k.score + g.score + d.score + t.score)

\* lines 60-66
MatchedImage(article, image, score) ==
    [score |-> score, filename |-> image.filename, description |-> image.description,
     article_source |-> article.article_id, type |-> image.figure_type]

Matching(list) == [raised |-> FALSE, matched |-> list]

MatchingRaised == [raised |-> TRUE, matched |-> <<>>]

RECURSIVE ScanImages(_, _, _, _, _)
\* the inner loop, from image i of the article on
ScanImages(article, items, query_lower, i, matched) ==
    IF i > Len(items) THEN Matching(matched)
    ELSE LET r == ScoreImage(article, items[i], query_lower)
         IN  IF r.raised THEN MatchingRaised
             ELSE ScanImages(article, items, query_lower, i + 1,
                             IF r.score > 0
                             THEN Append(matched, MatchedImage(article, items[i], r.score))
                             ELSE matched)

RECURSIVE ScanArticles(_, _, _, _)
\* the outer loop, from article a on
ScanArticles(kb, query_lower, a, matched) ==
    IF a > Len(kb) THEN Matching(matched)
    \* for image in None
    ELSE IF kb[a].images.type # "list" THEN MatchingRaised
    ELSE LET r == ScanImages(kb[a], kb[a].images.items, query_lower, 1, matched)
         IN  IF r.raised THEN MatchingRaised
             ELSE ScanArticles(kb, query_lower, a + 1, r.matched)

\* an integer as a sort key
ScoreKey(n) == [dot |-> n, nn |-> 1]

\* sorted(matched, key=score)[::-1] in the place of sort(reverse=True):
\* images of equal score come out in reverse
SortByScoreReversed(matched) ==
    LET keyed == [i \in 1..Len(matched) |-> <<matched[i], ScoreKey(matched[i].score)>>]
        sorted == ReverseSeq(ListSort(keyed))
    IN  [i \in 1..Len(sorted) |-> sorted[i][1]]

\* line 69: matched_images.sort(key=lambda x: x["score"], reverse=True)
SortByScore(matched) ==
    LET keyed == [i \in 1..Len(matched) |-> <<matched[i], ScoreKey(matched[i].score)>>]
        sorted == SortReverse(keyed)
    IN  [i \in 1..Len(sorted) |-> sorted[i][1]]

\* What one call of find_relevant_images returns, and whether it went
\* through the except branch of line 72
ImagesOutcome(query, kb, max) ==
    LET r == ScanArticles(kb, Lower(query), 1, <<>>)
    IN  [failed |-> r.raised,
         matched |-> IF r.raised THEN <<>> ELSE SliceTo(SortByScore(r.matched), max)]

find_relevant_images ==
    LET r == ImagesOutcome(image_query, image_kb, max_images)
    IN  /\ images_status = "called"
        /\ images_status' = "returned"
        /\ images_failed' = r.failed
        /\ matched_images' = r.matched
        /\ UNCHANGED <<image_query, image_kb, max_images, searchVars, detectVars,
                       popVars, answerVars, chatVars>>

InitImages ==
    /\ SearchIdle
    /\ ChatIdle
    /\ DetectIdle
    /\ PopIdle
    /\ AnswerIdle
    /\ image_query \in ImageQueries
    /\ image_kb \in Catalogs
    /\ max_images \in 0..MaxResults
    /\ matched_images = <<>>
    /\ images_failed = FALSE
    /\ images_status = "called"

NextImages == find_relevant_images

SpecImages == InitImages /\ [][NextImages]_vars

(***************************************************************************)
(* The chat session of app.py.  Streamlit runs the script once for every   *)
(* event; st.session_state outlives the runs, the script's own names do    *)
(* not.  An exception that leaves the script ends the run: what the run    *)
(* had put into st.session_state stays.  The variables of the calls hold   *)
(* what the last run called, "idle" for a call it did not reach.           *)
(***************************************************************************)
MaxPrompts == 3

\* search_knowledge(prompt, top_k=5)
ChatTopK == 5

\* find_relevant_images(..., max_images=2)
ChatMaxImages == 2

KenyaPrompt == <<"W", "a", "t", "e", "r", " ", "a", "c", "c", "e", "s", "s", " ", "i", "n", " ", "K", "e", "n", "y", "a">>

RoadsPrompt == <<"r", "u", "r", "a", "l", " ", "r", "o", "a", "d", "s">>

ChatPrompts == {KenyaPrompt, RoadsPrompt}

\* the artifact at the time of a prompt: two chunks, of one dimension or not
ChatStores ==
    {d \in Artifacts :
        /\ Len(d) = 2
        /\ d[1].embedding = <<1, 0>>
        /\ d[2].embedding \in {<<1, 1>>, <<1, 0, 1>>}}

\* the embedding the service gives for a prompt
ChatEmbedding == <<1, 1>>

\* the population service: a timeout, a body that is null, a list with an
\* entry of the requested year
ChatResponses ==
    {[outcome |-> "timeout", status_code |-> 0, body |-> NoBody],
     [outcome |-> "response", status_code |-> 200,
      body |-> [json |-> "null", data |-> NoData]],
     [outcome |-> "response", status_code |-> 200,
      body |-> [json |-> "object",
                data |-> [type |-> "list", items |-> <<EntryAt("2020", 1)>>]]]}

\* what load_image_knowledge_base gave when the session began
ChatCatalogs == {c \in Catalogs : Len(c) = 1 /\ c[1].article_id \in {"a1", "a6"}}

\* line 177
UserMessage(prompt) ==
    [role |-> "user", content |-> prompt, sources |-> <<>>, images |-> <<>>]

\* lines 211-216
AssistantMessage(content, sources, images) ==
    [role |-> "assistant", content |-> content, sources |-> sources,
     images |-> images]

\* a handler with the calls in a try block that records what it has
HandlerMessagesSwallowing(msgs, prompt, s, o, im) ==
    Append(Append(msgs, UserMessage(prompt)),
           AssistantMessage(o.answer, s.chunks, im.matched))

\* st.session_state.messages after the run of lines 175-216, given what
\* search_knowledge (s), generate_answer (o) and find_relevant_images (im)
\* did: line 177 appends the user message before the calls, line 211 is
\* reached only when neither call raised
HandlerMessages(msgs, prompt, s, o, im) ==
    IF s.status = "raised" \/ o.status = "raised"
    THEN Append(msgs, UserMessage(prompt))
    ELSE Append(Append(msgs, UserMessage(prompt)),
                AssistantMessage(o.answer, s.chunks, im.matched))

\* the names of a call the run did not reach are unbound in the new run
SearchNotReached ==
    /\ data' = <<>>
    /\ query_embedding' = <<>>
    /\ top_k' = 0
    /\ similarities' = <<>>
    /\ relevant_chunks' = <<>>
    /\ search_status' = "idle"
    /\ search_fault' = "none"

DetectNotReached ==
    /\ query_text' = <<>>
    /\ iso3_code' = None
    /\ detect_status' = "idle"

PopNotReached ==
    /\ response' = <<>>
    /\ pop_year' = 0
    /\ pop_data' = <<>>
    /\ pop_error' = ""
    /\ pop_status' = "idle"

AnswerNotReached ==
    /\ completion' = <<>>
    /\ answer' = <<>>
    /\ answer_status' = "idle"

ImagesNotReached ==
    /\ image_query' = <<>>
    /\ image_kb' = <<>>
    /\ max_images' = 0
    /\ matched_images' = <<>>
    /\ images_failed' = FALSE
    /\ images_status' = "idle"

NumPrompts == Cardinality({i \in 1..Len(messages) : messages[i].role = "user"})

\* the run of the script for a submitted prompt (lines 175-216)
ChatInput ==
    \E prompt \in ChatPrompts, fault \in SearchFaults, d \in ChatStores,
       comp \in Completions, resp \in ChatResponses :
        LET store == IF fault = "load" THEN <<>> ELSE d
            q == IF fault = "embedding" THEN <<>> ELSE ChatEmbedding
            s == SearchOutcome(store, q, ChatTopK, fault)
            o == AnswerOutcome(prompt, comp, resp)
            im == ImagesOutcome(prompt, image_knowledge_base, ChatMaxImages)
            answered == s.status = "returned"
            matched == answered /\ o.status = "returned"
        IN  /\ chat_status = "ready"
            /\ NumPrompts < MaxPrompts
            /\ messages' = HandlerMessages(messages, prompt, s, o, im)
            \* line 187
            /\ data' = store
            /\ query_embedding' = q
            /\ top_k' = ChatTopK
            /\ search_fault' = fault
            /\ search_status' = s.status
            /\ similarities' = s.similarities
            /\ relevant_chunks' = s.chunks
            \* line 190
            /\ IF answered
               THEN /\ query_text' = prompt
                    /\ completion' = comp
                    /\ answer_status' = o.status
                    /\ answer' = o.answer
                    /\ iso3_code' = o.iso3
                    /\ detect_status' = IF o.detected THEN "returned" ELSE "idle"
               ELSE DetectNotReached /\ AnswerNotReached
            /\ IF answered /\ o.looked_up
               THEN /\ response' = resp
                    /\ pop_year' = DefaultYear
                    /\ pop_status' = o.pop.status
                    /\ pop_data' = o.pop.value
                    /\ pop_error' = o.pop.error
               ELSE PopNotReached
            \* lines 196-200
            /\ IF matched
               THEN /\ image_query' = prompt
                    /\ image_kb' = image_knowledge_base
                    /\ max_images' = ChatMaxImages
                    /\ images_status' = "returned"
                    /\ images_failed' = im.failed
                    /\ matched_images' = im.matched
               ELSE ImagesNotReached
            /\ UNCHANGED <<image_knowledge_base, chat_status>>

\* the run of the script for the button 'Clear Chat History' (lines 149-151)
ClearChat ==
    /\ chat_status = "ready"
    /\ messages' = <<>>
    /\ SearchNotReached
    /\ DetectNotReached
    /\ PopNotReached
    /\ AnswerNotReached
    /\ ImagesNotReached
    /\ UNCHANGED <<image_knowledge_base, chat_status>>

\* lines 112-121: a new session
InitChat ==
    /\ SearchIdle
    /\ DetectIdle
    /\ PopIdle
    /\ AnswerIdle
    /\ ImagesIdle
    /\ messages = <<>>
    /\ image_knowledge_base \in ChatCatalogs
    /\ chat_status = "ready"

NextChat == ChatInput \/ ClearChat

SpecChat == InitChat /\ [][NextChat]_vars

(***************************************************************************)
(* The program: one call of one of its operations, or a chat session       *)
(***************************************************************************)
Init == InitSearch \/ InitDetect \/ InitPop \/ InitAnswer \/ InitImages \/ InitChat

Next ==
    \/ search_knowledge
    \/ DetectCall
    \/ PopCall
    \/ generate_answer
    \/ find_relevant_images
    \/ ChatInput
    \/ ClearChat

Spec == Init /\ [][Next]_vars

(***************************************************************************)
(* Properties of search_knowledge                                          *)
(***************************************************************************)
NumChunks == Len(data)

Minimum(a, b) == IF a < b THEN a ELSE b

\* the similarity of the j-th returned chunk to the query
ReturnedSim(j) == cosine_sim(query_embedding, data[relevant_chunks[j].text].embedding)

\* a >= b, an undefined similarity counting as the lowest score
SimGE(a, b) == IsNaN(b) \/ (~IsNaN(a) /\ ~FloatLT(a, b))

NonIncreasing ==
    \A j \in 1..(Len(relevant_chunks) - 1) : SimGE(ReturnedSim(j), ReturnedSim(j + 1))

\* C1: for a knowledge base of N chunks and top_k = k (k >= 0, where
\* min(k, N) is a length), search_knowledge returns exactly min(k, N) chunks,
\* ordered by non-increasing cosine similarity to the query embedding.
C1_MinKNSorted ==
    (search_status = "returned" /\ top_k >= 0) =>
        /\ Len(relevant_chunks) = Minimum(top_k, NumChunks)
        /\ NonIncreasing

\* C2: top_k <= 0 returns an empty list for every knowledge base, and top_k
\* greater than the number of chunks returns all the chunks.
C2_NonPositiveEmpty ==
    search_status = "returned" =>
        /\ top_k <= 0 => relevant_chunks = <<>>
        /\ top_k > NumChunks =>
              /\ Len(relevant_chunks) = NumChunks
              /\ {relevant_chunks[j].text : j \in 1..Len(relevant_chunks)} = 1..NumChunks

UniformDimensions == \A i \in 1..NumChunks : Len(data[i].embedding) = Len(query_embedding)

NumDefined ==
    Cardinality({i \in 1..NumChunks :
                    ~IsNaN(cosine_sim(query_embedding, data[i].embedding))})

\* C10: a zero vector (chunk or query) never makes search_knowledge fail
\* (when the store was loaded and the query embedded), and
\* in the ranking every zero-norm chunk comes after every chunk whose
\* similarity is defined, so that it is returned only when top_k exceeds the
\* number of chunks with a defined similarity.
C10_ZeroVectorLast ==
    (search_status # "called" /\ search_fault = "none" /\ UniformDimensions) =>
        /\ search_status = "returned"
        /\ \A i, j \in 1..Len(similarities) :
              (i < j /\ IsNaN(similarities[i][2])) => IsNaN(similarities[j][2])
        /\ (top_k >= 0 /\ \E j \in 1..Len(relevant_chunks) : IsNaN(ReturnedSim(j)))
              => top_k > NumDefined

\* load_knowledge_base returned: open and pickle.load did not raise
LoadSucceeded == search_status # "called" /\ search_fault # "load"

\* every chunk of the loaded store has an embedding of one length
StoreUniform ==
    \A i, j \in 1..NumChunks : Len(data[i].embedding) = Len(data[j].embedding)

\* the query embedding has the length of the embeddings of the store
QueryFitsStore ==
    \E i \in 1..NumChunks : Len(data[i].embedding) = Len(query_embedding)

\* C11: load_knowledge_base rejects a store whose embeddings are not all of
\* one length: after a successful load every chunk of the store has an
\* embedding of the same length, so that search_knowledge, given a query
\* embedding of the store's length, computes no dot product of vectors of
\* different lengths and returns.
C11_LoadRejectsMixedDimensions ==
    LoadSucceeded =>
        /\ StoreUniform
        /\ (search_fault = "none" /\ QueryFitsStore) => search_status = "returned"

\* the sort keys of the chunks at places i and j of the ranking are equal
\* numbers
SameSimilarity(i, j) ==
    /\ ~IsNaN(similarities[i][2])
    /\ ~IsNaN(similarities[j][2])
    /\ ~FloatLT(similarities[i][2], similarities[j][2])
    /\ ~FloatLT(similarities[j][2], similarities[i][2])

Occurs(needle, hay) ==
    \E i \in 1..(Len(hay) + 1) : \E j \in (i - 1)..Len(hay) : SubSeq(hay, i, j) = needle

\* the entries of the mapping whose name occurs in the lowercased query
MatchingEntries ==
    {i \in 1..Len(AFRICAN_COUNTRIES) : Occurs(AFRICAN_COUNTRIES[i].name, Lower(query_text))}

FirstOf(S) == CHOOSE i \in S : \A j \in S : i <= j

\* where in hay needle first starts
FirstStart(needle, hay) ==
    FirstOf({i \in 1..(Len(hay) - Len(needle) + 1) :
                SubSeq(hay, i, i + Len(needle) - 1) = needle})

\* C3: detect_country returns the code of the first entry, in the iteration
\* order of AFRICAN_COUNTRIES, whose name is a substring of the lowercased
\* query, and None exactly when no name is.
C3_FirstInMappingOrder ==
    detect_status = "returned" =>
        /\ iso3_code = None <=> MatchingEntries = {}
        /\ MatchingEntries # {} =>
              iso3_code = AFRICAN_COUNTRIES[FirstOf(MatchingEntries)].code

\* a query naming two countries one after the other, the one named first
\* being later in the mapping and longer: the earlier entry of the mapping
\* is returned
C3_TwoNamesWitness ==
    /\ detect_status = "returned"
    /\ \E i, j \in MatchingEntries :
          /\ i < j
          /\ FirstStart(AFRICAN_COUNTRIES[j].name, Lower(query_text))
                + Len(AFRICAN_COUNTRIES[j].name)
                < FirstStart(AFRICAN_COUNTRIES[i].name, Lower(query_text))
          /\ Len(AFRICAN_COUNTRIES[j].name) > Len(AFRICAN_COUNTRIES[i].name)
          /\ query_text # Lower(query_text)
          /\ iso3_code = AFRICAN_COUNTRIES[i].code

\* C14: for a query that is one name of AFRICAN_COUNTRIES, in any letter
\* case, detect_country returns the code mapped to that name: no other name
\* of the mapping that is a substring of it, or of which it is a substring,
\* takes precedence.
C14_NameGivesOwnCode ==
    detect_status = "returned" =>
        \A i \in 1..Len(AFRICAN_COUNTRIES) :
            Lower(query_text) = AFRICAN_COUNTRIES[i].name
                => iso3_code = AFRICAN_COUNTRIES[i].code

(***************************************************************************)
(* Properties of get_country_population_data                               *)
(***************************************************************************)
Items == response.body.data.items

\* a 200 response whose body is a JSON object
ObjectBody ==
    /\ response.outcome = "response"
    /\ response.status_code = 200
    /\ response.body.json = "object"

\* a body that is not an object with a list of objects in 'data', each with
\* a number or a string in 'popyear', all of one type
MalformedBody ==
    /\ response.outcome = "response"
    /\ response.status_code = 200
    /\ \/ response.body.json # "object"
       \/ response.body.data.type # "list"
       \/ \E i \in 1..Len(Items) :
             \/ Items[i].type # "object"
             \/ Items[i].popyear.type \in {"absent", "null"}
       \/ \E i, j \in 1..Len(Items) : Items[i].popyear.type # Items[j].popyear.type

LookupFailed ==
    \/ response.outcome \in {"timeout", "request_error"}
    \/ response.status_code # 200
    \/ MalformedBody

\* C4: every failure of the lookup (a timeout, another request error, a
\* status other than 200, a malformed body) makes
\* get_country_population_data return None, and no exception leaves it.
C4_FailuresReturnNone ==
    pop_status \in {"returned", "raised"} =>
        /\ pop_status = "returned"
        /\ LookupFailed => pop_data = <<>>

\* a 200 response with an object whose 'data' is missing or a list of
\* objects, each with a number in 'popyear' or without that key
EntriesWellFormed ==
    /\ ObjectBody
    /\ response.body.data.type \in {"absent", "list"}
    /\ \A i \in 1..Len(Items) :
          /\ Items[i].type = "object"
          /\ Items[i].popyear.type \in {"int", "absent"}

ExactEntries == {i \in 1..Len(Items) : Items[i].popyear = IntYear(pop_year)}

\* the popyear of entry i, 0 when it has none
YearOf(i) == IF Items[i].popyear.type = "int" THEN Items[i].popyear.value ELSE 0

\* C6: on a successful response with a list of entries the record returned
\* is built from an entry of the requested year when there is one, from the
\* entry with the largest popyear when there is none and the list is not
\* empty, and None is returned when the list is empty or absent.
C6_ExactYearElseLatest ==
    (pop_status # "called" /\ EntriesWellFormed) =>
        /\ pop_status = "returned"
        /\ ExactEntries # {} =>
              /\ Len(pop_data) = 1
              /\ pop_data[1].title \in ExactEntries
              /\ pop_data[1] = PopRecord(Items[pop_data[1].title], pop_year)
        /\ (ExactEntries = {} /\ Len(Items) > 0) =>
              /\ Len(pop_data) = 1
              /\ \A j \in 1..Len(Items) : YearOf(j) <= YearOf(pop_data[1].title)
              /\ pop_data[1] = PopRecord(Items[pop_data[1].title], pop_year)
        /\ Len(Items) = 0 => pop_data = <<>>

\* no entry of the requested year, and the latest entry is neither the
\* first nor the last of the list
C6_FallbackWitness ==
    /\ pop_status = "returned"
    /\ EntriesWellFormed
    /\ ExactEntries = {}
    /\ Len(Items) >= 3
    /\ Len(pop_data) = 1
    /\ pop_data[1].title \notin {1, Len(Items)}
    /\ \A j \in 1..Len(Items) : j # pop_data[1].title => YearOf(j) < YearOf(pop_data[1].title)

(***************************************************************************)
(* Properties of generate_answer                                           *)
(***************************************************************************)
BlockLines ==
    <<"**Population Context:**", "- Country: ", "- Latest WorldPop data: ",
      "- Source: ", "- Citation: ">>

\* some piece of the answer belongs to a population block
HasBlockPiece == \E i \in 1..Len(answer) : answer[i].line \in Range(BlockLines)

\* the answer is the completion followed by the five lines of the block,
\* filled from the record
HasFullBlock ==
    /\ Len(answer) = 1 + Len(BlockLines)
    /\ answer[1].line = "completion"
    /\ \A i \in 1..Len(BlockLines) : answer[i + 1].line = BlockLines[i]
    /\ Len(pop_data) = 1
    /\ answer[3].text = pop_data[1].country
    /\ answer[4].year = pop_data[1].year
    /\ answer[6].text = pop_data[1].citation

\* the lookup was made and gave no record: it timed out, or it returned None
\* for another reason
LookupGaveNone ==
    /\ completion = "ok"
    /\ detect_country(query_text) # None
    /\ \/ response.outcome = "timeout"
       \/ (pop_status = "returned" /\ pop_data = <<>>)

\* C5: when the lookup for a detected country times out or gives no record,
\* generate_answer returns exactly the text of the completion, with no piece
\* of a Population Context block; the block is appended, in full, only when
\* a country was detected and a record was returned.
C5_NoRecordNoBlock ==
    /\ (answer_status # "called" /\ LookupGaveNone) =>
          /\ answer_status = "returned"
          /\ answer = CompletionText
          /\ ~HasBlockPiece
    /\ answer_status = "returned" =>
          /\ HasBlockPiece =>
                /\ HasFullBlock
                /\ iso3_code # None
                /\ pop_status = "returned"
                /\ pop_data # <<>>
          /\ ~HasBlockPiece => answer = CompletionText

\* a country was detected, the lookup timed out, and the answer is returned
C5_TimeoutWitness ==
    /\ answer_status = "returned"
    /\ iso3_code # None
    /\ pop_status = "returned"
    /\ response.outcome = "timeout"
    /\ answer = CompletionText

(***************************************************************************)
(* Properties of find_relevant_images                                      *)
(***************************************************************************)
\* the images of the catalog, each named by its article and its place in
\* the article's list
Positions ==
    UNION {{<<a, i>> : i \in 1..Len(image_kb[a].images.items)} :
              a \in {b \in 1..Len(image_kb) : image_kb[b].images.type = "list"}}

ArticleAt(p) == image_kb[p[1]]

ImageAt(p) == image_kb[p[1]].images.items[p[2]]

\* catalog order: article order, then image order within the article
Before(p, q) == p[1] < q[1] \/ (p[1] = q[1] /\ p[2] < q[2])

\* the image a returned entry was made from
PositionOf(entry) ==
    CHOOSE p \in Positions :
        ImageAt(p).type = "object" /\ ImageAt(p).filename = entry.filename

QueryLower == Lower(image_query)

\* the score the code gives the image at p
CodeScore(p) == ScoreImage(ArticleAt(p), ImageAt(p), QueryLower)

\* the entries whose scoring does not raise and gives more than 0
Scoring == {p \in Positions : ~CodeScore(p).raised /\ CodeScore(p).score > 0}

\* C7: an entry whose scoring raises is skipped and nothing else is lost:
\* the images returned are well-formed images of score above 0, as many of
\* them as max_images allows.
C7_MalformedEntrySkipped ==
    images_status = "returned" =>
        /\ Len(matched_images) = Minimum(max_images, Cardinality(Scoring))
        /\ \A r \in 1..Len(matched_images) : PositionOf(matched_images[r]) \in Scoring

KeywordsIn(p) ==
    {k \in 1..Len(ImageAt(p).relevance) :
        Occurs(Lower(ImageAt(p).relevance[k].text), QueryLower)}

GeoIn(p) ==
    /\ ImageAt(p).geographic_focus.type = "str"
    /\ ImageAt(p).geographic_focus.text # <<>>
    /\ Occurs(Lower(ImageAt(p).geographic_focus.text), QueryLower)

DataTypeIn(p) ==
    /\ ImageAt(p).data_type.type = "str"
    /\ ImageAt(p).data_type.text # <<>>
    /\ Occurs(Lower(ReplaceUnderscores(ImageAt(p).data_type.text)), QueryLower)

TopicIn(p) == Occurs(Lower(ArticleAt(p).article_topic.text), QueryLower)

\* the score of the claim
ClaimScore(p) ==
    2 * Cardinality(KeywordsIn(p))
    + (IF GeoIn(p) THEN 3 ELSE 0)
    + (IF DataTypeIn(p) THEN 2 ELSE 0)
    + (IF TopicIn(p) THEN 1 ELSE 0)

GeoOnly(p) == GeoIn(p) /\ KeywordsIn(p) = {} /\ ~DataTypeIn(p) /\ ~TopicIn(p)

OneKeywordOnly(p) ==
    Cardinality(KeywordsIn(p)) = 1 /\ ~GeoIn(p) /\ ~DataTypeIn(p) /\ ~TopicIn(p)

\* the returned entries whose article has a topic (a string, maybe empty)
WithTopic ==
    {r \in 1..Len(matched_images) :
        ArticleAt(PositionOf(matched_images[r])).article_topic.type = "str"}

\* C8: the score of a returned image is 2 for each relevance keyword that
\* occurs in the lowercased query, plus 3 for a geographic focus that is
\* present and occurs, plus 2 for a data type (underscores as spaces) that is
\* present and occurs, plus 1 for an article topic that occurs; an image that
\* matches its geographic focus only has 3 and comes before an image that
\* matches one keyword only, which has 2.
C8_ScoreFormula ==
    images_status = "returned" =>
        /\ \A r \in WithTopic :
              matched_images[r].score = ClaimScore(PositionOf(matched_images[r]))
        /\ \A r, q \in WithTopic :
              (/\ GeoOnly(PositionOf(matched_images[r]))
               /\ OneKeywordOnly(PositionOf(matched_images[q])))
              => /\ matched_images[r].score = 3
                 /\ matched_images[q].score = 2
                 /\ r < q

\* an image that matches its geographic focus only is returned ahead of an
\* image that matches one keyword only and stands earlier in the catalog
C8_GeoOutranksWitness ==
    /\ images_status = "returned"
    /\ \E r, q \in WithTopic :
          /\ r < q
          /\ GeoOnly(PositionOf(matched_images[r]))
          /\ OneKeywordOnly(PositionOf(matched_images[q]))
          /\ Before(PositionOf(matched_images[q]), PositionOf(matched_images[r]))
          /\ matched_images[r].score = 3
          /\ matched_images[q].score = 2

\* every entry of the catalog is what the schema says: 'images' is a list of
\* objects, keywords are strings, geographic_focus, data_type and
\* article_topic are strings or missing
CatalogConforms ==
    \A a \in 1..Len(image_kb) :
        /\ image_kb[a].images.type = "list"
        /\ image_kb[a].article_topic.type \in {"str", "absent"}
        /\ \A i \in 1..Len(image_kb[a].images.items) :
              LET image == image_kb[a].images.items[i]
              IN  /\ image.type = "object"
                  /\ \A k \in 1..Len(image.relevance) : image.relevance[k].type = "str"
                  /\ image.geographic_focus.type \in {"str", "absent"}
                  /\ image.data_type.type \in {"str", "absent"}

Returned == {PositionOf(matched_images[r]) : r \in 1..Len(matched_images)}

\* C9: the result holds images of score above 0 only, by descending score,
\* images of equal score in catalog order, and it is the first max_images
\* entries of that ranking: no image left out ranks before a returned one.
C9_RankedPositiveTruncated ==
    (images_status = "returned" /\ CatalogConforms) =>
        /\ Len(matched_images) = Minimum(max_images, Cardinality(Scoring))
        /\ Cardinality(Returned) = Len(matched_images)
        /\ \A r \in 1..Len(matched_images) :
              /\ matched_images[r].score > 0
              /\ matched_images[r].score = CodeScore(PositionOf(matched_images[r])).score
        /\ \A r, q \in 1..Len(matched_images) :
              r < q =>
                 \/ matched_images[r].score > matched_images[q].score
                 \/ /\ matched_images[r].score = matched_images[q].score
                    /\ Before(PositionOf(matched_images[r]), PositionOf(matched_images[q]))
        /\ \A p \in Scoring \ Returned :
              \A r \in 1..Len(matched_images) :
                 \/ CodeScore(p).score < matched_images[r].score
                 \/ /\ CodeScore(p).score = matched_images[r].score
                    /\ Before(PositionOf(matched_images[r]), p)

\* images of equal score from two articles are returned in catalog order,
\* after an image of a higher score that stands later in the catalog, and an
\* image of score above 0 is cut off
C9_TiesAndTruncationWitness ==
    /\ images_status = "returned"
    /\ CatalogConforms
    /\ Cardinality(Scoring) > max_images
    /\ \E r, q, t \in 1..Len(matched_images) :
          /\ r < q /\ q < t
          /\ matched_images[r].score > matched_images[q].score
          /\ Before(PositionOf(matched_images[q]), PositionOf(matched_images[r]))
          /\ matched_images[q].score = matched_images[t].score
          /\ matched_images[q].article_source # matched_images[t].article_source

\* the article of the image at p has no article_topic, or an empty one
NoTopic(p) ==
    \/ ArticleAt(p).article_topic.type = "absent"
    \/ /\ ArticleAt(p).article_topic.type = "str"
       /\ ArticleAt(p).article_topic.text = <<>>

\* C15: the point for the article topic is given only for a topic that is
\* not empty and occurs in the query: an image whose article has a missing
\* or empty article_topic, and whose keywords, geographic focus and data
\* type do not match the query, has score 0 and is not in the result.
C15_NoTopicNoPoint ==
    (images_status = "returned" /\ CatalogConforms) =>
        \A p \in Positions :
            (NoTopic(p) /\ KeywordsIn(p) = {} /\ ~GeoIn(p) /\ ~DataTypeIn(p))
                => /\ CodeScore(p).score = 0
                   /\ p \notin Returned

(***************************************************************************)
(* Properties of the chat session                                          *)
(***************************************************************************)
\* the last run called generate_answer and the completion call raised
CompletionFailed == answer_status # "idle" /\ completion = "error"

\* a required stage of the last run raised: loading the store, embedding
\* the query or ranking (in search_knowledge), or the completion call
RequiredStageRaised == search_status = "raised" \/ CompletionFailed

LastMessage == messages[Len(messages)]

\* C12: a failure of a required stage propagates and yields no answer: when
\* loading the store or embedding the query raises, search_knowledge raises
\* and returns no chunks; when the completion call raises, generate_answer
\* raises and neither detect_country nor the population lookup is called;
\* and after a run in which a required stage raised no answer text exists,
\* no later call was made, and the last entry of the history is the user
\* message of that prompt, with no assistant message after it.
C12_RequiredFailurePropagates ==
    chat_status = "ready" =>
        /\ search_fault # "none" =>
              /\ search_status = "raised"
              /\ relevant_chunks = <<>>
        /\ CompletionFailed =>
              /\ answer_status = "raised"
              /\ detect_status = "idle"
              /\ pop_status = "idle"
        /\ RequiredStageRaised =>
              /\ answer_status # "returned"
              /\ answer = <<>>
              /\ images_status = "idle"
              /\ messages # <<>>
              /\ LastMessage.role = "user"
              /\ \A i \in 1..Len(messages) :
                    messages[i].role = "assistant" => messages[i].content # <<>>

\* a prompt was answered, and then the completion call raised for a prompt
\* that names a country: the history ends with the user message of the
\* second prompt
C12_CompletionErrorWitness ==
    /\ chat_status = "ready"
    /\ search_status = "returned"
    /\ CompletionFailed
    /\ answer_status = "raised"
    /\ query_text = KenyaPrompt
    /\ Len(messages) = 3
    /\ messages[2].role = "assistant"
    /\ LastMessage = UserMessage(KenyaPrompt)

\* C16: after any sequence of prompts and 'Clear Chat History' actions,
\* prompts whose search_knowledge or generate_answer raises included, the
\* history alternates user and assistant entries, beginning with a user
\* entry: every user message is followed by the assistant message of its
\* prompt before the next user message.
C16_MessagesAlternate ==
    chat_status = "ready" =>
        /\ Len(messages) % 2 = 0
        /\ \A i \in 1..Len(messages) :
              messages[i].role = (IF i % 2 = 1 THEN "user" ELSE "assistant")
====
